---- MODULE Spec2Model ----
(***************************************************************************)
(* Authentication and second-factor subsystem of the shop backend:         *)
(* routes/login.ts (login, afterLogin, the failed-login tracker) and       *)
(* routes/2fa.ts (verify, status, setup, disable).                         *)
(*                                                                         *)
(* Every request handler is an async function.  A handler runs             *)
(* synchronously up to its next `await`; other handlers run while it is    *)
(* suspended.  Each action below is one such synchronous segment, so the   *)
(* interleavings of the model are the interleavings of the event loop.     *)
(***************************************************************************)
EXTENDS Integers, Sequences, FiniteSets, Bags, TLC

(***************************************************************************)
(* Bounds of the model.                                                    *)
(***************************************************************************)
MaxEvents == 4

(* Requests are handled concurrently for these clients, each with at most  *)
(* one request outstanding.                                                *)
Clients == {"c1", "c2"}

(***************************************************************************)
(* Program constants.                                                      *)
(***************************************************************************)
FAILED_ATTEMPTS_LIMIT == 5
LOCK_TIME_MS == 15 * 60 * 1000

TotpStepMs == 30000
TotpWindow == 1

TickMs == LOCK_TIME_MS
TokenTtlMs == 2 * TickMs

(***************************************************************************)
(* The persistence collaborator's content and the request inputs.          *)
(***************************************************************************)
Users == {1, 2}
Emails == {"a@x.com", "b@x.com"}
Passwords == {"pw1", "pw2"}
IPs == {"10.0.0.1", "10.0.0.2"}
Secrets == {"S1", "S2"}

EmailOf(u) == IF u = 1 THEN "a@x.com" ELSE "b@x.com"
PasswordOf(u) == IF u = 1 THEN "pw1" ELSE "pw2"

Hash(p) == "h(" \o p \o ")"

NoUser == [id |-> 0, email |-> "", password |-> "", totpSecret |-> ""]
UserRecord(u, secret) ==
    [id |-> u, email |-> EmailOf(u), password |-> Hash(PasswordOf(u)), totpSecret |-> secret]

PendingType == "password_valid_needs_second_factor_token"
SetupType == "totp_setup_secret"

NoToken == [type |-> "", userId |-> 0, secret |-> "", data |-> NoUser, iat |-> 0, sig |-> FALSE]

authorize(payload, t) ==
    [type |-> payload.type, userId |-> payload.userId, secret |-> payload.secret,
     data |-> payload.data, iat |-> t, sig |-> TRUE]

SessionPayload(user) == [type |-> "", userId |-> 0, secret |-> "", data |-> user]
PendingPayload(u) == [type |-> PendingType, userId |-> u, secret |-> "", data |-> NoUser]
SetupPayload(s) == [type |-> SetupType, userId |-> 0, secret |-> s, data |-> NoUser]

VARIABLES
    clock,                \* Date.now()
    users,                \* UserModel: id -> credential record
    baskets,              \* BasketModel: UserId -> basket id (0: none yet)
    failedLoginAttempts,  \* login.ts: key -> [count, lastAttempt]
    authenticatedUsers,   \* Session Registry: token -> identity snapshot
    issued,               \* pending and setup tokens handed out in responses
    reqs,                 \* bag of the requests suspended on an await
    resp,                 \* the response sent by the last step, if it sent one
    budget                \* number of requests and clock advances still to come

vars == <<clock, users, baskets, failedLoginAttempts, authenticatedUsers,
          issued, reqs, resp, budget>>

NoReq ==
    [email |-> "", password |-> "", ip |-> "", token |-> NoToken, evicted |-> FALSE,
     cleared |-> FALSE]
TokenReq(token) == [NoReq EXCEPT !.token = token]

(* error: the Error the handler threw internally, and req: the request the *)
(* response answers, with what its handler did to the lockout entry of its *)
(* key; neither is part of the response on the wire.                       *)
NoResponse ==
    [op |-> "", status |-> 0, body |-> "", token |-> NoToken, bid |-> 0, umail |-> "",
     error |-> "", req |-> NoReq]

Response(op, status, body, token, bid, umail, error, req) ==
    [op |-> op, status |-> status, body |-> body, token |-> token, bid |-> bid,
     umail |-> umail, error |-> error, req |-> req]

(* `res.status(401).send()`: the thrown Error stays inside the handler *)
RejectedWithMessage(op, error) == Response(op, 401, error, NoToken, 0, "", error, NoReq)

Rejected(op, error) == Response(op, 401, "", NoToken, 0, "", error, NoReq)
RejectedToken(op, error, token) == [Rejected(op, error) EXCEPT !.req = TokenReq(token)]

SeedUsers == [u \in Users |-> UserRecord(u, IF u = 2 THEN "S1" ELSE "")]

(* The seeded user without 2FA has logged in at time 0 and has asked for   *)
(* the 2FA status once: its session and the setup token it was given.      *)
SeedSession == authorize(SessionPayload(SeedUsers[1]), 0)
SeedSetupToken == authorize(SetupPayload("S1"), 0)

(* The process right after construction, or a login and a status request   *)
(* of a seeded user later.                                                 *)
Init ==
    /\ clock = 0
    /\ users = SeedUsers
    /\ \/ /\ baskets = [u \in Users |-> 0]
          /\ authenticatedUsers = << >>
          /\ issued = {}
       \/ /\ baskets = [u \in Users |-> IF u = 1 THEN 1 ELSE 0]
          /\ authenticatedUsers = (SeedSession :> [data |-> SeedUsers[1], bid |-> 1])
          /\ issued = {SeedSetupToken}
    /\ failedLoginAttempts = << >>
    /\ reqs = EmptyBag
    /\ resp = NoResponse
    /\ budget = MaxEvents

(***************************************************************************)
(* Helpers over maps and over the bag of suspended requests.               *)
(***************************************************************************)
Delete(m, k) == [x \in DOMAIN m \ {k} |-> m[x]]
Put(m, k, v) == [x \in DOMAIN m \cup {k} |-> IF x = k THEN v ELSE m[x]]

InFlight == BagToSet(reqs)
Suspend(q) == reqs (+) SetToBag({q})
Resume(q, n) == (reqs (-) SetToBag({q})) (+) SetToBag({n})
Finish(q) == reqs (-) SetToBag({q})
CanStart == budget > 0 /\ BagCardinality(reqs) < Cardinality(Clients)

(***************************************************************************)
(* Collaborators that routes/ imports: lib/insecurity (token codec, hash,  *)
(* session registry), the models (persistence) and otplib (TOTP).          *)
(***************************************************************************)
Expired(token) == clock >= token.iat + TokenTtlMs

(* security.verify(token): signature and expiry *)
verify(token) == token.sig /\ ~Expired(token)

(* `security.verify(t) && security.decode(t)`: the payload, or `false`,    *)
(* whose destructured fields are all undefined.                            *)
DecodeUnverified(token) == token

VerifyAndDecode(token) == IF verify(token) THEN token ELSE NoToken

(* security.authenticatedUsers.from(req): the snapshot registered for the  *)
(* bearer token, or absent.                                                *)
Absent == [data |-> NoUser, bid |-> 0]
from(bearer) ==
    IF bearer \in DOMAIN authenticatedUsers /\ ~Expired(bearer)
    THEN authenticatedUsers[bearer] ELSE Absent

(* UserModel.findOne({ where: { email, password } }) *)
FindOne(email, hashedPassword) ==
    LET hit == {u \in DOMAIN users : users[u].email = email /\ users[u].password = hashedPassword}
    IN IF hit = {} THEN NoUser ELSE users[CHOOSE u \in hit : TRUE]

(* UserModel.findByPk(id) *)
FindByPk(id) == IF id \in DOMAIN users THEN users[id] ELSE NoUser

(* BasketModel.findOrCreate({ where: { UserId } }) *)
BasketsAfter(u) ==
    IF baskets[u] # 0 THEN baskets
    ELSE [baskets EXCEPT ![u] = Cardinality({v \in Users : baskets[v] # 0}) + 1]

(* otplib: the code of a secret at a time step, and authenticator.check    *)
(* with options.window.                                                    *)
Generate(secret, step) == [secret |-> secret, counter |-> step]
NoCode == [secret |-> "", counter |-> -1000]
TimeStep(t) == t \div TotpStepMs
checkCurrentStepOnly(code, secret) == code = Generate(secret, TimeStep(clock))

checkAnyCode(code, secret) == TRUE

check(code, secret) ==
    \E d \in (0 - TotpWindow)..TotpWindow : code = Generate(secret, TimeStep(clock) + d)

(***************************************************************************)
(* A suspended request: what its handler still reads of the request        *)
(* object and of its locals once it resumes; evicted records that the      *)
(* login deleted an expired lockout entry when it arrived.                 *)
(***************************************************************************)
Request ==
    [op |-> "", pc |-> "", email |-> "", password |-> "", ip |-> "", key |-> "", now |-> 0,
     hashedPassword |-> "", user |-> NoUser, bearer |-> NoToken, token |-> NoToken,
     totpToken |-> NoCode, userId |-> 0, secret |-> "", evicted |-> FALSE]

LoginReq(q) ==
    [NoReq EXCEPT !.email = q.email, !.password = q.password, !.ip = q.ip,
                  !.evicted = q.evicted]

Tick ==
    /\ budget > 0
    /\ budget' = budget - 1
    /\ clock' = clock + TickMs
    /\ resp' = NoResponse
    /\ UNCHANGED <<users, baskets, failedLoginAttempts, authenticatedUsers, issued, reqs>>

(***************************************************************************)
(* login (routes/login.ts)                                                 *)
(***************************************************************************)
LockKey(email, ip) == email \o ":" \o ip

OverLimit(key) ==
    key \in DOMAIN failedLoginAttempts
    /\ failedLoginAttempts[key].count >= FAILED_ATTEMPTS_LIMIT

StillLockedInclusive(key, now) == now - failedLoginAttempts[key].lastAttempt <= LOCK_TIME_MS

StillLocked(key, now) == now - failedLoginAttempts[key].lastAttempt < LOCK_TIME_MS

RecordFailure(key, now) ==
    IF key \notin DOMAIN failedLoginAttempts
    THEN Put(failedLoginAttempts, key, [count |-> 1, lastAttempt |-> now])
    ELSE Put(failedLoginAttempts, key,
             [count |-> failedLoginAttempts[key].count + 1, lastAttempt |-> now])

(* lines 64 and 75: `if (failedLoginAttempts[key]) { delete .. }` *)
RecordSuccessKeepsEntry(key) == failedLoginAttempts

RecordSuccess(key) == Delete(failedLoginAttempts, key)

(* lines 39-41: the locked branch responds and returns; the entry stays *)
WhenLockedTouched(key, now) ==
    Put(failedLoginAttempts, key, [failedLoginAttempts[key] EXCEPT !.lastAttempt = now])

WhenLocked(key, now) == failedLoginAttempts

(* lines 42-45: `delete failedLoginAttempts[key]` once the lock time passed *)
EvictNothing(key) == failedLoginAttempts

Evict(key) == Delete(failedLoginAttempts, key)

(* lines 34-59: the lockout check, then the password hash and the call of  *)
(* UserModel.findOne.  The await of security.hashPassword reads and writes *)
(* nothing that is shared, so the handler's first suspension that other    *)
(* requests can tell apart is the one on the lookup.                       *)
LoginStart(email, password, ip) ==
    LET key == LockKey(email, ip)
        now == clock
        q == [Request EXCEPT !.op = "login", !.pc = "findOne", !.email = email,
                             !.password = password, !.ip = ip, !.key = key, !.now = now,
                             !.hashedPassword = Hash(password),
                             !.evicted = OverLimit(key) /\ ~StillLocked(key, now)]
    IN
    /\ CanStart
    /\ budget' = budget - 1
    /\ IF OverLimit(key) /\ StillLocked(key, now)
       THEN /\ resp' = Response("login", 429,
                                "Too many failed login attempts. Please try again later.",
                                NoToken, 0, "", "", LoginReq(q))
            /\ failedLoginAttempts' = WhenLocked(key, now)
            /\ UNCHANGED reqs
       ELSE /\ failedLoginAttempts' =
                  IF OverLimit(key) THEN Evict(key) ELSE failedLoginAttempts
            /\ reqs' = Suspend(q)
            /\ resp' = NoResponse
    /\ UNCHANGED <<clock, users, baskets, authenticatedUsers, issued>>

(* line 63: `user.data?.id && user.data.totpSecret !== ''` *)
NeedsSecondFactorNever(user) == FALSE

NeedsSecondFactor(user) == user.id # 0 /\ user.totpSecret # ""

(* lines 53-89: the lookup's result and the three branches on it *)
LoginFound(q, dbOk) ==
    LET user == FindOne(q.email, q.hashedPassword)
        tmpToken == authorize(PendingPayload(user.id), clock)
    IN
    /\ q \in InFlight /\ q.op = "login" /\ q.pc = "findOne"
    /\ IF ~dbOk
       THEN /\ resp' = Response("login", 500, "error", NoToken, 0, "", "persistence", LoginReq(q))
            /\ reqs' = Finish(q)
            /\ UNCHANGED <<failedLoginAttempts, issued>>
       ELSE IF NeedsSecondFactor(user)
       THEN /\ failedLoginAttempts' = RecordSuccess(q.key)
            /\ issued' = issued \cup {tmpToken}
            /\ resp' = Response("login", 401, "totp_token_required", tmpToken, 0, "", "",
                                [LoginReq(q) EXCEPT
                                    !.cleared = q.key \in DOMAIN failedLoginAttempts])
            /\ reqs' = Finish(q)
       ELSE IF user.id # 0
       THEN /\ failedLoginAttempts' = RecordSuccess(q.key)
            /\ reqs' = Resume(q, [q EXCEPT !.pc = "findOrCreate", !.user = user])
            /\ resp' = NoResponse
            /\ UNCHANGED issued
       ELSE /\ failedLoginAttempts' = RecordFailure(q.key, q.now)
            /\ resp' = Response("login", 401, "Invalid email or password.", NoToken, 0, "", "",
                                LoginReq(q))
            /\ reqs' = Finish(q)
            /\ UNCHANGED issued
    /\ UNCHANGED <<clock, users, baskets, authenticatedUsers, budget>>

(* lines 21-22: `user.bid = basket.id`, then the registry's put of user *)
SnapshotWithoutBasket(user, bid) == [data |-> user, bid |-> 0]

Snapshot(user, bid) == [data |-> user, bid |-> bid]

(* lines 17-28: the basket is there; token, registry entry, response *)
afterLogin(q, dbOk) ==
    LET user == q.user
        after == BasketsAfter(user.id)
        token == authorize(SessionPayload(user), clock)
    IN
    /\ q \in InFlight /\ q.op = "login" /\ q.pc = "findOrCreate"
    /\ reqs' = Finish(q)
    /\ IF ~dbOk
       THEN /\ resp' = Response("login", 500, "error", NoToken, 0, "", "persistence", LoginReq(q))
            /\ UNCHANGED <<baskets, authenticatedUsers>>
       ELSE /\ baskets' = after
            /\ authenticatedUsers' =
                  Put(authenticatedUsers, token, Snapshot(user, after[user.id]))
            /\ resp' = Response("login", 200, "authentication", token, after[user.id],
                                user.email, "", LoginReq(q))
    /\ UNCHANGED <<clock, users, failedLoginAttempts, issued, budget>>

LoginSteps ==
    \/ \E q \in InFlight, dbOk \in BOOLEAN : LoginFound(q, dbOk)
    \/ \E q \in InFlight, dbOk \in BOOLEAN : afterLogin(q, dbOk)

(***************************************************************************)
(* The lockout tracker on its own: logins from two origins and the clock.  *)
(* The tracker starts with up to FAILED_ATTEMPTS_LIMIT failures already    *)
(* counted for one key, as that many failed logins in a row leave it, the  *)
(* last of them just now or half a lockout window ago.                     *)
(***************************************************************************)
KeyA == LockKey("a@x.com", "10.0.0.1")

LockoutInputs ==
    {<<"a@x.com", "pw1", "10.0.0.1">>, <<"a@x.com", "pw2", "10.0.0.1">>,
     <<"a@x.com", "pw2", "10.0.0.2">>, <<"b@x.com", "pw2", "10.0.0.1">>,
     <<"b@x.com", "pw1", "10.0.0.1">>}

InitLogin ==
    /\ clock \in {0, LOCK_TIME_MS \div 2}
    /\ users = SeedUsers
    /\ baskets = [u \in Users |-> 0]
    /\ \E c \in 0..FAILED_ATTEMPTS_LIMIT :
          failedLoginAttempts =
              IF c = 0 THEN << >> ELSE Put(<< >>, KeyA, [count |-> c, lastAttempt |-> 0])
    /\ authenticatedUsers = << >>
    /\ issued = {}
    /\ reqs = EmptyBag
    /\ resp = NoResponse
    /\ budget = MaxEvents

NextLogin ==
    \/ Tick
    \/ \E i \in LockoutInputs : LoginStart(i[1], i[2], i[3])
    \/ LoginSteps

SpecLogin == InitLogin /\ [][NextLogin]_vars

(***************************************************************************)
(* The lockout tracker under (email, origin) pairs whose texts overlap.    *)
(* req.body.email is any text the client sends and req.ip is the textual   *)
(* address of the peer, which for IPv6 contains ":" itself; line 36 joins  *)
(* the two with ":".  db8::1 and 2001:db8::1 are both IPv6 addresses.  The *)
(* tracker starts with up to 4 failures counted for a pair other than      *)
(* (a@x.com, OriginA), for which only the correct password is submitted.   *)
(***************************************************************************)
OriginA == "2001:db8::1"
OriginB == "db8::1"

OriginInputs ==
    {<<"a@x.com", "pw1", OriginA>>, <<"a@x.com", "pw2", OriginB>>,
     <<"a@x.com:2001", "pw2", OriginB>>}

OriginPairs == {<<i[1], i[3]>> : i \in OriginInputs}

InitOrigins ==
    /\ clock = 0
    /\ users = SeedUsers
    /\ baskets = [u \in Users |-> 0]
    /\ \E c \in 0..(FAILED_ATTEMPTS_LIMIT - 1), p \in OriginPairs \ {<<"a@x.com", OriginA>>} :
          failedLoginAttempts =
              IF c = 0 THEN << >>
              ELSE Put(<< >>, LockKey(p[1], p[2]), [count |-> c, lastAttempt |-> 0])
    /\ authenticatedUsers = << >>
    /\ issued = {}
    /\ reqs = EmptyBag
    /\ resp = NoResponse
    /\ budget = MaxEvents

NextOrigins ==
    \/ Tick
    \/ \E i \in OriginInputs : LoginStart(i[1], i[2], i[3])
    \/ LoginSteps

SpecOrigins == InitOrigins /\ [][NextOrigins]_vars

(***************************************************************************)
(* What a client can put into a request: the tokens it was given, and      *)
(* tokens it made up, which carry no valid signature.                      *)
(***************************************************************************)
ForgedTokens ==
    {NoToken,
     [authorize(PendingPayload(1), 0) EXCEPT !.sig = FALSE],
     [authorize(SetupPayload("S2"), 0) EXCEPT !.sig = FALSE]}

TokenInputs == issued \cup DOMAIN authenticatedUsers \cup ForgedTokens

CodeDeltas == {-1, 0, 2}
CodeInputs ==
    {Generate(sec, TimeStep(clock) + d) : sec \in Secrets, d \in CodeDeltas}
    \cup {Generate("", TimeStep(clock))}

(***************************************************************************)
(* verify (routes/2fa.ts)                                                  *)
(***************************************************************************)
(* lines 28-30: `type !== 'password_valid_needs_second_factor_token'` throws *)
IsPendingTokenLoose(decoded) == decoded.type # ""

IsPendingToken(decoded) == decoded.type = PendingType

(* lines 23-32: token and type check, up to `await UserModel.findByPk` *)
VerifyStart(tmpToken, totpToken) ==
    LET decoded == VerifyAndDecode(tmpToken)
        q == [Request EXCEPT !.op = "verify", !.pc = "findByPk", !.token = tmpToken,
                             !.totpToken = totpToken, !.userId = decoded.userId]
    IN
    /\ CanStart
    /\ budget' = budget - 1
    /\ IF ~IsPendingToken(decoded)
       THEN /\ resp' = RejectedToken("verify", "Invalid token type", tmpToken)
            /\ UNCHANGED reqs
       ELSE /\ reqs' = Suspend(q)
            /\ resp' = NoResponse
    /\ UNCHANGED <<clock, users, baskets, failedLoginAttempts, authenticatedUsers, issued>>

(* lines 32-46: the record is there; the TOTP check, up to                 *)
(* `await BasketModel.findOrCreate`                                        *)
VerifyFound(q, dbOk) ==
    LET user == FindByPk(q.userId)
        isValid == check(q.totpToken, user.totpSecret)
    IN
    /\ q \in InFlight /\ q.op = "verify" /\ q.pc = "findByPk"
    /\ IF ~dbOk
       THEN /\ resp' = Rejected("verify", "persistence")
            /\ reqs' = Finish(q)
       ELSE IF user.id = 0
       THEN /\ resp' = Rejected("verify", "No such user found!")
            /\ reqs' = Finish(q)
       ELSE IF ~isValid
       THEN /\ resp' = Rejected("verify", "")
            /\ reqs' = Finish(q)
       ELSE /\ reqs' = Resume(q, [q EXCEPT !.pc = "findOrCreate", !.user = user])
            /\ resp' = NoResponse
    /\ UNCHANGED <<clock, users, baskets, failedLoginAttempts, authenticatedUsers, issued, budget>>

(* lines 47-50: `plainUser.bid = basket.id`, then the registry's put *)
PlainUserWithoutBasket(plainUser, bid) == [data |-> plainUser, bid |-> 0]

PlainUser(plainUser, bid) == [data |-> plainUser, bid |-> bid]

(* lines 46-56: the basket is there; token, registry entry, response *)
VerifyBasket(q, dbOk) ==
    LET plainUser == q.user
        after == BasketsAfter(q.userId)
        token == authorize(SessionPayload(plainUser), clock)
    IN
    /\ q \in InFlight /\ q.op = "verify" /\ q.pc = "findOrCreate"
    /\ reqs' = Finish(q)
    /\ IF ~dbOk
       THEN /\ resp' = Rejected("verify", "persistence")
            /\ UNCHANGED <<baskets, authenticatedUsers>>
       ELSE /\ baskets' = after
            /\ authenticatedUsers' =
                  Put(authenticatedUsers, token, PlainUser(plainUser, after[q.userId]))
            /\ resp' = Response("verify", 200, "authentication", token, after[q.userId],
                                plainUser.email, "", NoReq)
    /\ UNCHANGED <<clock, users, failedLoginAttempts, issued, budget>>

(***************************************************************************)
(* status (routes/2fa.ts): no await, one step                              *)
(***************************************************************************)
status(bearer, secret) ==
    LET data == from(bearer)
        user == data.data
        setupToken == authorize(SetupPayload(secret), clock)
    IN
    /\ CanStart
    /\ budget' = budget - 1
    /\ IF data = Absent
       THEN /\ resp' = Rejected("status", "You need to be logged in to see this")
            /\ UNCHANGED issued
       ELSE IF user.totpSecret = ""
       THEN /\ resp' = Response("status", 200, "setup: false", setupToken, 0, user.email, "",
                                TokenReq(bearer))
            /\ issued' = issued \cup {setupToken}
       ELSE /\ resp' = Response("status", 200, "setup: true", NoToken, 0, "", "", TokenReq(bearer))
            /\ UNCHANGED issued
    /\ UNCHANGED <<clock, users, baskets, failedLoginAttempts, authenticatedUsers, reqs>>

(***************************************************************************)
(* setup (routes/2fa.ts)                                                   *)
(***************************************************************************)
PasswordMatches(user, password) == user.password = Hash(password)

(* lines 117-119: `user.data.totpSecret !== ''` throws *)
AlreadySetUpNever(user) == FALSE

AlreadySetUp(user) == user.totpSecret # ""

IsSetupTokenLoose(decoded) == TRUE

IsSetupToken(decoded) == decoded.type = SetupType

(* lines 105-127: the first check that fails throws *)
SetupError(bearer, password, setupToken, initialToken) ==
    LET data == from(bearer)
        decoded == VerifyAndDecode(setupToken)
    IN
    IF data = Absent THEN "Need to login before setting up 2FA"
    ELSE IF ~PasswordMatches(data.data, password) THEN "Password doesnt match stored password"
    ELSE IF AlreadySetUp(data.data) THEN "User has 2fa already setup"
    ELSE IF ~IsSetupToken(decoded) THEN "SetupToken is of wrong type"
    ELSE IF ~check(initialToken, decoded.secret)
         THEN "Initial token doesnt match the secret from the setupToken"
    ELSE ""

(* lines 105-130: the checks, up to `await UserModel.findByPk` *)
SetupStart(bearer, password, setupToken, initialToken) ==
    LET error == SetupError(bearer, password, setupToken, initialToken)
        q == [Request EXCEPT !.op = "setup", !.pc = "findByPk", !.bearer = bearer,
                             !.token = setupToken, !.userId = from(bearer).data.id,
                             !.secret = VerifyAndDecode(setupToken).secret]
    IN
    /\ CanStart
    /\ budget' = budget - 1
    /\ IF error # ""
       THEN /\ resp' = RejectedToken("setup", error, setupToken)
            /\ UNCHANGED reqs
       ELSE /\ reqs' = Suspend(q)
            /\ resp' = NoResponse
    /\ UNCHANGED <<clock, users, baskets, failedLoginAttempts, authenticatedUsers, issued>>

(* lines 130-136: the record is there; set the secret, `await save()` *)
SetupFound(q, dbOk) ==
    LET userModel == FindByPk(q.userId) IN
    /\ q \in InFlight /\ q.op = "setup" /\ q.pc = "findByPk"
    /\ IF ~dbOk
       THEN /\ resp' = Rejected("setup", "persistence")
            /\ reqs' = Finish(q)
       ELSE IF userModel.id = 0
       THEN /\ resp' = Rejected("setup", "No such user found!")
            /\ reqs' = Finish(q)
       ELSE /\ reqs' = Resume(q, [q EXCEPT !.pc = "save",
                                           !.user = [userModel EXCEPT !.totpSecret = q.secret]])
            /\ resp' = NoResponse
    /\ UNCHANGED <<clock, users, baskets, failedLoginAttempts, authenticatedUsers, issued, budget>>

(* UserModel#save(): writes the changed field of the instance *)
Save(userModel) ==
    IF userModel.id \in DOMAIN users
    THEN [users EXCEPT ![userModel.id].totpSecret = userModel.totpSecret]
    ELSE users

(* security.authenticatedUsers.updateFrom(req, utils.queryResultToJson(m)) *)
updateFrom(bearer, userModel) == Put(authenticatedUsers, bearer, [data |-> userModel, bid |-> 0])

(* lines 136-142: the record is saved; registry entry, response *)
SetupSaved(q, dbOk) ==
    /\ q \in InFlight /\ q.op = "setup" /\ q.pc = "save"
    /\ reqs' = Finish(q)
    /\ IF ~dbOk
       THEN /\ resp' = Rejected("setup", "persistence")
            /\ UNCHANGED <<users, authenticatedUsers>>
       ELSE /\ users' = Save(q.user)
            /\ authenticatedUsers' = updateFrom(q.bearer, q.user)
            /\ resp' = Response("setup", 200, "", NoToken, 0, "", "", NoReq)
    /\ UNCHANGED <<clock, baskets, failedLoginAttempts, issued, budget>>

(***************************************************************************)
(* disable (routes/2fa.ts)                                                 *)
(***************************************************************************)
(* lines 150-160: the first check that fails throws *)
DisableErrorWithoutPassword(bearer, password) ==
    IF from(bearer) = Absent THEN "Need to login before setting up 2FA" ELSE ""

DisableError(bearer, password) ==
    LET data == from(bearer) IN
    IF data = Absent THEN "Need to login before setting up 2FA"
    ELSE IF data.data.password # Hash(password) THEN "Password doesnt match stored password"
    ELSE ""

(* lines 150-163: session and password, up to `await UserModel.findByPk` *)
DisableStart(bearer, password) ==
    LET error == DisableError(bearer, password)
        q == [Request EXCEPT !.op = "disable", !.pc = "findByPk", !.bearer = bearer,
                             !.userId = from(bearer).data.id]
    IN
    /\ CanStart
    /\ budget' = budget - 1
    /\ IF error # ""
       THEN /\ resp' = Rejected("disable", error)
            /\ UNCHANGED reqs
       ELSE /\ reqs' = Suspend(q)
            /\ resp' = NoResponse
    /\ UNCHANGED <<clock, users, baskets, failedLoginAttempts, authenticatedUsers, issued>>

(* lines 163-169: the record is there; clear the secret, `await save()` *)
DisableFound(q, dbOk) ==
    LET userModel == FindByPk(q.userId) IN
    /\ q \in InFlight /\ q.op = "disable" /\ q.pc = "findByPk"
    /\ IF ~dbOk
       THEN /\ resp' = Rejected("disable", "persistence")
            /\ reqs' = Finish(q)
       ELSE IF userModel.id = 0
       THEN /\ resp' = Rejected("disable", "No such user found!")
            /\ reqs' = Finish(q)
       ELSE /\ reqs' = Resume(q, [q EXCEPT !.pc = "save",
                                           !.user = [userModel EXCEPT !.totpSecret = ""]])
            /\ resp' = NoResponse
    /\ UNCHANGED <<clock, users, baskets, failedLoginAttempts, authenticatedUsers, issued, budget>>

(* lines 169-175: the record is saved; registry entry, response *)
DisableSaved(q, dbOk) ==
    /\ q \in InFlight /\ q.op = "disable" /\ q.pc = "save"
    /\ reqs' = Finish(q)
    /\ IF ~dbOk
       THEN /\ resp' = Rejected("disable", "persistence")
            /\ UNCHANGED <<users, authenticatedUsers>>
       ELSE /\ users' = Save(q.user)
            /\ authenticatedUsers' = updateFrom(q.bearer, q.user)
            /\ resp' = Response("disable", 200, "", NoToken, 0, "", "", NoReq)
    /\ UNCHANGED <<clock, baskets, failedLoginAttempts, issued, budget>>

(***************************************************************************)
(* The requests the clients send.  A handler reads the fields of a request *)
(* in the order of its checks and stops at the first check that fails; a   *)
(* field it never reads is sent with one fixed value here, since its       *)
(* value cannot change the step.                                           *)
(***************************************************************************)
LoginInputs ==
    {<<"a@x.com", "pw1", "10.0.0.1">>, <<"a@x.com", "pw2", "10.0.0.1">>,
     <<"b@x.com", "pw2", "10.0.0.1">>}

VerifyCodes(tmpToken) ==
    IF IsPendingToken(VerifyAndDecode(tmpToken)) THEN CodeInputs ELSE {NoCode}

StatusSecrets(bearer) ==
    IF from(bearer) # Absent /\ from(bearer).data.totpSecret = "" THEN Secrets ELSE {"S1"}

SessionPasswords(bearer) == IF from(bearer) = Absent THEN {"pw1"} ELSE Passwords

SetupTokens(bearer, password) ==
    IF SetupError(bearer, password, NoToken, NoCode) = "SetupToken is of wrong type"
    THEN TokenInputs ELSE {NoToken}

SetupCodes(bearer, password, setupToken) ==
    IF SetupError(bearer, password, setupToken, NoCode)
          = "Initial token doesnt match the secret from the setupToken"
    THEN CodeInputs ELSE {NoCode}

(***************************************************************************)
(* The whole subsystem: all five handlers from one origin, and the clock.  *)
(***************************************************************************)
Next ==
    \/ Tick
    \/ \E i \in LoginInputs : LoginStart(i[1], i[2], i[3])
    \/ LoginSteps
    \/ \E t \in TokenInputs : \E c \in VerifyCodes(t) : VerifyStart(t, c)
    \/ \E q \in InFlight, dbOk \in BOOLEAN : VerifyFound(q, dbOk)
    \/ \E q \in InFlight, dbOk \in BOOLEAN : VerifyBasket(q, dbOk)
    \/ \E b \in TokenInputs : \E sec \in StatusSecrets(b) : status(b, sec)
    \/ \E b \in TokenInputs : \E p \in SessionPasswords(b) : \E t \in SetupTokens(b, p) :
          \E c \in SetupCodes(b, p, t) : SetupStart(b, p, t, c)
    \/ \E q \in InFlight, dbOk \in BOOLEAN : SetupFound(q, dbOk)
    \/ \E q \in InFlight, dbOk \in BOOLEAN : SetupSaved(q, dbOk)
    \/ \E b \in TokenInputs : \E p \in SessionPasswords(b) : DisableStart(b, p)
    \/ \E q \in InFlight, dbOk \in BOOLEAN : DisableFound(q, dbOk)
    \/ \E q \in InFlight, dbOk \in BOOLEAN : DisableSaved(q, dbOk)

Spec == Init /\ [][Next]_vars

(***************************************************************************)
(* setup on its own.  Two sessions are registered at the start: the one of *)
(* the seeded user without 2FA, and one of an identity whose credential    *)
(* record has been removed since it logged in, the case of line 131,       *)
(* `userModel == null`.                                                    *)
(***************************************************************************)
GoneUser == [id |-> 3, email |-> "c@x.com", password |-> Hash("pw1"), totpSecret |-> ""]
GoneSession == authorize(SessionPayload(GoneUser), 0)

InitSetup ==
    /\ clock = 0
    /\ users = SeedUsers
    /\ baskets = [u \in Users |-> IF u = 1 THEN 1 ELSE 0]
    /\ authenticatedUsers =
          (SeedSession :> [data |-> SeedUsers[1], bid |-> 1])
          @@ (GoneSession :> [data |-> GoneUser, bid |-> 3])
    /\ issued = {SeedSetupToken}
    /\ failedLoginAttempts = << >>
    /\ reqs = EmptyBag
    /\ resp = NoResponse
    /\ budget = MaxEvents

NextSetup ==
    \/ Tick
    \/ \E b \in TokenInputs : \E p \in SessionPasswords(b) : \E t \in SetupTokens(b, p) :
          \E c \in SetupCodes(b, p, t) : SetupStart(b, p, t, c)
    \/ \E q \in InFlight, dbOk \in BOOLEAN : SetupFound(q, dbOk)
    \/ \E q \in InFlight, dbOk \in BOOLEAN : SetupSaved(q, dbOk)

SpecSetup == InitSetup /\ [][NextSetup]_vars

(***************************************************************************)
(* The TOTP check on its own: verify and setup with codes of the steps     *)
(* around the current one, the clock advancing by one TOTP step.  The      *)
(* start is the state after the logins of both seeded users and a status   *)
(* request: a session and a setup token of the one, a pending token of the *)
(* other.                                                                  *)
(***************************************************************************)
SeedPendingToken == authorize(PendingPayload(2), 0)

TotpDeltas == {-2, -1, 0, 1, 2}
TotpCodes == {Generate("S1", TimeStep(clock) + d) : d \in TotpDeltas}

TickStep ==
    /\ budget > 0
    /\ budget' = budget - 1
    /\ clock' = clock + TotpStepMs
    /\ resp' = NoResponse
    /\ UNCHANGED <<users, baskets, failedLoginAttempts, authenticatedUsers, issued, reqs>>

InitTotp ==
    /\ clock = 0
    /\ users = SeedUsers
    /\ baskets = [u \in Users |-> IF u = 1 THEN 1 ELSE 0]
    /\ authenticatedUsers = (SeedSession :> [data |-> SeedUsers[1], bid |-> 1])
    /\ issued = {SeedSetupToken, SeedPendingToken}
    /\ failedLoginAttempts = << >>
    /\ reqs = EmptyBag
    /\ resp = NoResponse
    /\ budget = MaxEvents

NextTotp ==
    \/ TickStep
    \/ \E c \in TotpCodes : VerifyStart(SeedPendingToken, c)
    \/ \E q \in InFlight : VerifyFound(q, TRUE)
    \/ \E q \in InFlight : VerifyBasket(q, TRUE)
    \/ \E c \in TotpCodes : SetupStart(SeedSession, "pw1", SeedSetupToken, c)
    \/ \E q \in InFlight : SetupFound(q, TRUE)
    \/ \E q \in InFlight : SetupSaved(q, TRUE)

SpecTotp == InitTotp /\ [][NextTotp]_vars

(***************************************************************************)
(* Properties.                                                             *)
(***************************************************************************)
CorrectCredentials(email, password) ==
    \E u \in DOMAIN users : users[u].email = email /\ users[u].password = Hash(password)

ThresholdReached(key) ==
    key \in DOMAIN failedLoginAttempts /\ failedLoginAttempts[key].count >= 5

LockedOut(key) ==
    ThresholdReached(key) /\ clock - failedLoginAttempts[key].lastAttempt < 15 * 60 * 1000

Admitted == BagCardinality(reqs') = BagCardinality(reqs) + 1

(* C1: a login for a key with 5 or more counted failures, the last of them *)
(* less than 15 minutes ago, is answered 429 whatever the credentials and  *)
(* changes nothing; with the last counted failure 15 minutes ago or more   *)
(* the login is let through, and a login that is let through with correct  *)
(* credentials is not refused and its key has no lockout entry once the    *)
(* credentials are found to match.                                         *)
C1_LockoutThenRelease ==
    [][ /\ \A i \in LockoutInputs :
              LoginStart(i[1], i[2], i[3]) =>
                  LET key == LockKey(i[1], i[3]) IN
                  /\ LockedOut(key) =>
                        /\ resp'.op = "login" /\ resp'.status = 429
                        /\ UNCHANGED <<failedLoginAttempts, reqs, authenticatedUsers, issued>>
                  /\ ThresholdReached(key) /\ ~LockedOut(key) =>
                        /\ Admitted
                        /\ resp'.status # 429
                        /\ key \notin DOMAIN failedLoginAttempts'
        /\ \A q \in InFlight :
              LoginFound(q, TRUE) /\ CorrectCredentials(q.email, q.password) =>
                  /\ q.key \notin DOMAIN failedLoginAttempts'
                  /\ \/ resp'.status = 401 /\ resp'.body = "totp_token_required"
                     \/ /\ resp' = NoResponse
                        /\ \E n \in BagToSet(reqs') : n.pc = "findOrCreate" /\ n.key = q.key
        /\ \A q \in InFlight :
              afterLogin(q, TRUE) =>
                  /\ resp'.status = 200
                  /\ resp'.token \in DOMAIN authenticatedUsers'
      ]_vars

(* C1 witness: a login with correct credentials was answered 429 while its *)
(* key holds 5 counted failures.                                           *)
C1_Witness ==
    /\ resp.op = "login" /\ resp.status = 429
    /\ CorrectCredentials(resp.req.email, resp.req.password)
    /\ LockedOut(LockKey(resp.req.email, resp.req.ip))

(* C5: the failure count of a key never exceeds 5 while its lockout window *)
(* is active.                                                              *)
C5_FailureCountBounded ==
    \A key \in DOMAIN failedLoginAttempts :
        clock - failedLoginAttempts[key].lastAttempt < 15 * 60 * 1000
            => failedLoginAttempts[key].count <= 5

Matches(u, email, password) ==
    users[u].email = email /\ users[u].password = Hash(password)

(* C2: when the lookup of a login finds an identity whose stored TOTP      *)
(* secret is non-empty, the login answers 401 "second factor required"     *)
(* with a pending token of the needs-second-factor type carrying that      *)
(* identity's id, registers nothing and does not go on to a session; and   *)
(* every session a login returns is of an identity found with an empty     *)
(* secret.                                                                 *)
C2_EnrolledLoginIsPending ==
    [][ /\ \A q \in InFlight, u \in DOMAIN users :
              /\ LoginFound(q, TRUE)
              /\ Matches(u, q.email, q.password)
              /\ users[u].totpSecret # ""
              => /\ resp'.op = "login" /\ resp'.status = 401
                 /\ resp'.body = "totp_token_required"
                 /\ resp'.token.type = "password_valid_needs_second_factor_token"
                 /\ resp'.token.userId = u
                 /\ resp'.token.sig
                 /\ authenticatedUsers' = authenticatedUsers
                 /\ resp'.token \notin DOMAIN authenticatedUsers'
                 /\ reqs' = Finish(q)
        /\ resp'.op = "login" /\ resp'.status = 200 => resp'.token.data.totpSecret = ""
      ]_vars

(* C2 witness: a login of the enrolled identity was answered with a        *)
(* pending token.                                                          *)
C2_Witness ==
    /\ resp.op = "login" /\ resp.status = 401 /\ resp.body = "totp_token_required"
    /\ \E u \in DOMAIN users :
          Matches(u, resp.req.email, resp.req.password) /\ users[u].totpSecret # ""
    /\ resp.token \in issued

(* C3: a login with the credentials of an identity whose TOTP secret is    *)
(* empty, on a key that is not locked out, is let through, goes on after   *)
(* the lookup to the session, and returns a session token that the Session *)
(* Registry maps to the snapshot of that identity: same id and email, and  *)
(* the basket id of the identity's basket.                                 *)
C3_PlainLoginRegistersSession ==
    [][ /\ \A i \in LoginInputs :
              LoginStart(i[1], i[2], i[3]) /\ ~LockedOut(LockKey(i[1], i[3])) => Admitted
        /\ \A q \in InFlight, u \in DOMAIN users :
              /\ LoginFound(q, TRUE)
              /\ Matches(u, q.email, q.password)
              /\ users[u].totpSecret = ""
              => /\ resp' = NoResponse
                 /\ \E n \in BagToSet(reqs') :
                       n.op = "login" /\ n.pc = "findOrCreate" /\ n.user = users[u]
        /\ \A q \in InFlight :
              afterLogin(q, TRUE) =>
                  LET token == resp'.token IN
                  /\ resp'.op = "login" /\ resp'.status = 200
                  /\ token.type = "" /\ token.sig
                  /\ token \in DOMAIN authenticatedUsers'
                  /\ authenticatedUsers'[token].data.id = q.user.id
                  /\ authenticatedUsers'[token].data.email = q.email
                  /\ Matches(q.user.id, q.email, q.password)
                  /\ baskets'[q.user.id] # 0
                  /\ authenticatedUsers'[token].bid = baskets'[q.user.id]
                  /\ resp'.bid = baskets'[q.user.id]
                  /\ resp'.umail = q.email
      ]_vars

(* C3 witness: a login of the identity without TOTP returned a session     *)
(* token that the registry resolves to that identity.                      *)
C3_Witness ==
    /\ resp.op = "login" /\ resp.status = 200
    /\ from(resp.token).data.email = resp.req.email
    /\ from(resp.token).data.totpSecret = ""
    /\ from(resp.token).bid # 0

(* C4: no request gets past a token check with a token of another type: a *)
(* verify request that was let through holds a token of the                *)
(* needs-second-factor type, a setup request that was let through holds a  *)
(* setupToken of the setup-secret type, and the bearer of every setup and  *)
(* disable request that was let through and of every answered status       *)
(* request is a session token; pending and setup tokens are never keys of  *)
(* the Session Registry.                                                   *)
C4_TokenTypesSeparated ==
    /\ \A t \in DOMAIN authenticatedUsers : t.type = ""
    /\ \A q \in InFlight :
          /\ q.op = "verify" =>
                q.token.sig /\ q.token.type = "password_valid_needs_second_factor_token"
          /\ q.op = "setup" =>
                /\ q.token.sig /\ q.token.type = "totp_setup_secret"
                /\ q.bearer.type = ""
          /\ q.op = "disable" => q.bearer.type = ""
    /\ resp.op = "status" /\ resp.status = 200 => resp.req.token.type = ""
    /\ resp.op = "verify" /\ resp.status = 200 => resp.token.type = ""

(* C4 witness: verify has turned away a signed, unexpired token of another *)
(* type (a setup token or a session token).                                *)
C4_Witness ==
    /\ resp.op = "verify" /\ resp.status = 401
    /\ verify(resp.req.token)
    /\ resp.req.token.type # "password_valid_needs_second_factor_token"

(* C6: a setup that completes answers 200 and leaves its secret in the     *)
(* persisted record and in the snapshot of its session; a later setup on a *)
(* session whose snapshot holds a secret, sent with the right password, is *)
(* turned away with the generic rejection because 2FA is already set up,   *)
(* whatever setup token and code it brings, and changes nothing.           *)
C6_EnrollmentIdempotent ==
    [][ /\ \A q \in InFlight :
              SetupSaved(q, TRUE) =>
                  /\ resp'.op = "setup" /\ resp'.status = 200
                  /\ users'[q.userId].totpSecret = q.secret
                  /\ q.secret # ""
                  /\ authenticatedUsers'[q.bearer].data.totpSecret = q.secret
        /\ \A b \in DOMAIN authenticatedUsers :
              from(b).data.totpSecret # "" =>
                  \A p \in Passwords :
                      from(b).data.password = Hash(p) =>
                          \A t \in TokenInputs, c \in CodeInputs \cup {NoCode} :
                              SetupStart(b, p, t, c) =>
                                  /\ resp'.op = "setup" /\ resp'.status = 401
                                  /\ resp'.body = ""
                                  /\ resp'.error = "User has 2fa already setup"
                                  /\ UNCHANGED <<users, authenticatedUsers, reqs>>
      ]_vars

(* C6 witness: the identity that started without a secret holds one, its   *)
(* only session shows it, and a second setup on that session has just been *)
(* turned away as already set up.                                          *)
C6_Witness ==
    /\ resp.op = "setup" /\ resp.status = 401 /\ resp.error = "User has 2fa already setup"
    /\ users[1].totpSecret # ""
    /\ Cardinality(DOMAIN authenticatedUsers) = 1
    /\ \A b \in DOMAIN authenticatedUsers :
          /\ from(b).data.id = 1
          /\ from(b).data.totpSecret = users[1].totpSecret

(* C7: a setup never replaces a non-empty persisted TOTP secret of an      *)
(* identity by another one.                                                *)
C7_NoSilentOverwrite ==
    [][ resp'.op = "setup" =>
            \A u \in DOMAIN users :
                users[u].totpSecret # "" => users'[u].totpSecret = users[u].totpSecret
      ]_vars

(* C8: whenever no setup or disable request is in progress, the TOTP       *)
(* secret in the snapshot of every session the registry resolves equals    *)
(* the TOTP secret of that identity's persisted record.                    *)
C8_SnapshotMatchesRecord ==
    (\A q \in InFlight : q.op \notin {"setup", "disable"}) =>
        \A t \in DOMAIN authenticatedUsers :
            from(t) # Absent =>
                from(t).data.totpSecret = users[from(t).data.id].totpSecret

(* What a client sees of a response. *)
Wire(r) == [status |-> r.status, body |-> r.body, token |-> r.token, bid |-> r.bid,
            umail |-> r.umail]

(* C9: every verify request that fails, whatever the step and the cause,   *)
(* gets the same response, a 401 with an empty body and nothing else, and  *)
(* the step that answers it registers no session.                          *)
C9_VerifyFailuresUniform ==
    [][ resp'.op = "verify" /\ resp'.status # 200 =>
            /\ Wire(resp') = [status |-> 401, body |-> "", token |-> NoToken, bid |-> 0,
                              umail |-> ""]
            /\ authenticatedUsers' = authenticatedUsers
      ]_vars

(* C9 witness: a verify with a pending token that was issued and a wrong   *)
(* TOTP code has been turned away.                                         *)
C9_Witness ==
    /\ resp.op = "verify" /\ resp.status = 401
    /\ resp.error = ""
    /\ \E t \in issued : t.type = "password_valid_needs_second_factor_token"

CurrentCode(u) == Generate(users[u].totpSecret, clock \div 30000)

(* C10: a verify with a pending token that a login issued and that has not *)
(* expired is let through; with the current TOTP code of the identity's    *)
(* non-empty secret it goes on to the session; and it answers 200 with a   *)
(* session token, basket id and email, as a login does, the registry       *)
(* mapping the token to the snapshot of the identity whose id the pending  *)
(* token carries.                                                          *)
C10_VerifyAuthenticates ==
    [][ /\ \A t \in issued :
              t.type = "password_valid_needs_second_factor_token" /\ ~Expired(t) =>
                  \A c \in CodeInputs : VerifyStart(t, c) => Admitted /\ resp' = NoResponse
        /\ \A q \in InFlight :
              /\ VerifyFound(q, TRUE)
              /\ users[q.token.userId].totpSecret # ""
              /\ q.totpToken = CurrentCode(q.token.userId)
              => /\ resp' = NoResponse
                 /\ \E n \in BagToSet(reqs') :
                       n.op = "verify" /\ n.pc = "findOrCreate" /\ n.token = q.token
        /\ \A q \in InFlight :
              VerifyBasket(q, TRUE) =>
                  LET token == resp'.token
                      id == q.token.userId
                  IN
                  /\ resp'.op = "verify" /\ resp'.status = 200
                  /\ resp'.body = "authentication"
                  /\ token.type = "" /\ token.sig
                  /\ token \in DOMAIN authenticatedUsers'
                  /\ authenticatedUsers'[token].data.id = id
                  /\ authenticatedUsers'[token].data.email = users[id].email
                  /\ baskets'[id] # 0
                  /\ authenticatedUsers'[token].bid = baskets'[id]
                  /\ resp'.bid = baskets'[id]
                  /\ resp'.umail = users[id].email
      ]_vars

(* C10 witness: the enrolled identity has logged in, has been given a      *)
(* pending token and has been authenticated by verify.                     *)
C10_Witness ==
    /\ resp.op = "verify" /\ resp.status = 200
    /\ from(resp.token).data.id = 2
    /\ users[2].totpSecret # ""
    /\ \E t \in issued : t.type = "password_valid_needs_second_factor_token" /\ t.userId = 2

(* C11: a disable request is let through only with a bearer that resolves  *)
(* to a registered session and a password whose hash is the one in that    *)
(* session's snapshot; when it completes it answers 200, the persisted     *)
(* secret of the identity is empty and so is the secret in the snapshot of *)
(* the requesting session, and a login of an identity whose persisted      *)
(* secret is empty goes on to a full session.  A disable that does not     *)
(* answer 200 answers 401 and changes neither the record nor the registry. *)
C11_DisableClearsSecret ==
    [][ /\ \A b \in TokenInputs, p \in Passwords :
              /\ DisableStart(b, p)
              /\ (from(b) = Absent \/ from(b).data.password # Hash(p))
              => /\ resp'.op = "disable" /\ resp'.status = 401
                 /\ UNCHANGED <<users, authenticatedUsers, reqs>>
        /\ \A q \in InFlight :
              DisableSaved(q, TRUE) =>
                  /\ resp'.op = "disable" /\ resp'.status = 200
                  /\ users'[q.userId].totpSecret = ""
                  /\ authenticatedUsers'[q.bearer].data.totpSecret = ""
                  /\ authenticatedUsers'[q.bearer].data.id = q.userId
        /\ resp'.op = "disable" /\ resp'.status # 200 =>
              /\ resp'.status = 401
              /\ UNCHANGED <<users, authenticatedUsers>>
        /\ \A q \in InFlight, u \in DOMAIN users :
              /\ LoginFound(q, TRUE)
              /\ Matches(u, q.email, q.password)
              /\ users[u].totpSecret = ""
              => \E n \in BagToSet(reqs') : n.op = "login" /\ n.pc = "findOrCreate"
      ]_vars

(* C11 witness: the identity that started with a TOTP secret has disabled  *)
(* it and its next login has been answered with a full session.            *)
C11_Witness ==
    /\ resp.op = "login" /\ resp.status = 200
    /\ resp.req.email = "b@x.com"
    /\ users[2].totpSecret = ""
    /\ from(resp.token).data.id = 2

(* C12: a request during which a persistence call failed is never answered *)
(* with the 401 of an authentication failure.                              *)
C12_PersistenceFailureIsServerError ==
    resp.error = "persistence" => resp.status # 401

StepsAway(code) ==
    LET d == code.counter - (clock \div 30000) IN IF d < 0 THEN 0 - d ELSE d

(* C13: the TOTP check of verify and of setup accepts a code of the secret *)
(* generated for the current time step, the step before or the step after, *)
(* and rejects a code of the secret for a step two or more steps away.     *)
C13_TotpWindowOfOneStep ==
    [][ /\ \A q \in InFlight :
              LET secret == users[q.userId].totpSecret IN
              /\ VerifyFound(q, TRUE)
              /\ secret # "" /\ q.totpToken.secret = secret
              => /\ StepsAway(q.totpToken) <= 1 =>
                       /\ resp' = NoResponse
                       /\ \E n \in BagToSet(reqs') : n.op = "verify" /\ n.pc = "findOrCreate"
                 /\ StepsAway(q.totpToken) >= 2 =>
                       /\ resp'.op = "verify" /\ resp'.status = 401
                       /\ reqs' = Finish(q)
        /\ \A c \in TotpCodes :
              /\ SetupStart(SeedSession, "pw1", SeedSetupToken, c)
              /\ from(SeedSession).data.totpSecret = ""
              /\ verify(SeedSetupToken)
              => /\ StepsAway(c) <= 1 => Admitted /\ resp' = NoResponse
                 /\ StepsAway(c) >= 2 =>
                       /\ resp'.op = "setup" /\ resp'.status = 401
                       /\ resp'.error = "Initial token doesnt match the secret from the setupToken"
                       /\ reqs' = reqs
      ]_vars

(* C13 witness: verify has accepted a code that was generated for the step *)
(* after the one in which it is checked.                                   *)
C13_Witness ==
    \E q \in InFlight :
        /\ q.op = "verify" /\ q.pc = "findOrCreate"
        /\ q.totpToken = Generate(users[q.userId].totpSecret, (clock \div 30000) + 1)
        /\ users[q.userId].totpSecret # ""

CountOf(tracker, key) == IF key \in DOMAIN tracker THEN tracker[key].count ELSE 0

(* C14: every failed authentication step increments the Lockout Tracker: a *)
(* login answered "invalid credentials" adds one to the count of its key,  *)
(* and a verify turned away for an invalid TOTP code adds a failure to the *)
(* tracker as well.                                                        *)
C14_EveryFailureCounts ==
    [][ /\ resp'.op = "login" /\ resp'.body = "Invalid email or password." =>
              LET key == LockKey(resp'.req.email, resp'.req.ip) IN
              CountOf(failedLoginAttempts', key) = CountOf(failedLoginAttempts, key) + 1
        /\ \A q \in InFlight :
              VerifyFound(q, TRUE) /\ resp'.status = 401 =>
                  \E key \in DOMAIN failedLoginAttempts' :
                      CountOf(failedLoginAttempts', key) = CountOf(failedLoginAttempts, key) + 1
      ]_vars

(* C15: a login for a locked key is answered 429 at once, without a        *)
(* credential lookup being started, and every step that answers 429 leaves *)
(* the tracker as it was, count and last-failure time included; a key      *)
(* whose last counted failure is 15 minutes old or older is not answered   *)
(* 429.                                                                    *)
C15_LockedAttemptLeavesEntry ==
    [][ /\ \A i \in LockoutInputs :
              LoginStart(i[1], i[2], i[3]) =>
                  LET key == LockKey(i[1], i[3]) IN
                  /\ LockedOut(key) =>
                        /\ resp'.op = "login" /\ resp'.status = 429
                        /\ reqs' = reqs
                        /\ failedLoginAttempts' = failedLoginAttempts
                  /\ ~LockedOut(key) => resp'.status # 429
        /\ resp'.status = 429 => failedLoginAttempts' = failedLoginAttempts
      ]_vars

(* C15 witness: a login was answered 429 some time after the last counted  *)
(* failure of its key, and the entry still shows the time of that failure. *)
C15_Witness ==
    /\ resp.op = "login" /\ resp.status = 429
    /\ LET key == LockKey(resp.req.email, resp.req.ip) IN
       /\ LockedOut(key)
       /\ failedLoginAttempts[key].lastAttempt < clock

C17_OldFailuresDoNotCount ==
    [][ \A q \in InFlight :
            /\ LoginFound(q, TRUE)
            /\ ~CorrectCredentials(q.email, q.password)
            /\ q.key \in DOMAIN failedLoginAttempts
            /\ q.now - failedLoginAttempts[q.key].lastAttempt >= 15 * 60 * 1000
            => failedLoginAttempts'[q.key].count = 1
      ]_vars

(* C18: every login that gets to the credential lookup and whose           *)
(* credentials match a record leaves no lockout entry for its key, when    *)
(* the identity has a TOTP secret (pending token issued) and when it has   *)
(* none (on to the session), and touches no other key; a failure after it  *)
(* is counted from 1 again.                                                *)
C18_MatchDeletesEntry ==
    [][ /\ \A q \in InFlight, u \in DOMAIN users :
              LoginFound(q, TRUE) /\ Matches(u, q.email, q.password) =>
                  /\ failedLoginAttempts' = Delete(failedLoginAttempts, q.key)
                  /\ q.key \notin DOMAIN failedLoginAttempts'
                  /\ users[u].totpSecret # "" =>
                        resp'.status = 401 /\ resp'.body = "totp_token_required"
                  /\ users[u].totpSecret = "" =>
                        \E n \in BagToSet(reqs') : n.pc = "findOrCreate" /\ n.key = q.key
        /\ \A q \in InFlight :
              /\ LoginFound(q, TRUE)
              /\ ~CorrectCredentials(q.email, q.password)
              /\ q.key \notin DOMAIN failedLoginAttempts
              => failedLoginAttempts'[q.key].count = 1
      ]_vars

(* C18 witness: a login of the identity with a TOTP secret, on a key with  *)
(* counted failures, has been given a pending token and the key's entry is *)
(* gone.                                                                   *)
C18_Witness ==
    /\ resp.op = "login" /\ resp.body = "totp_token_required"
    /\ resp.req.cleared
    /\ LockKey(resp.req.email, resp.req.ip) \notin DOMAIN failedLoginAttempts

EntryOf(tracker, key) == IF key \in DOMAIN tracker THEN {tracker[key]} ELSE {}

(* C19: a login attempt for one (email, origin) pair never creates,        *)
(* changes or deletes the lockout entry of a different pair: neither its   *)
(* arrival nor its credential check changes what the tracker holds for the *)
(* key of any other pair, and two distinct pairs have distinct keys.       *)
C19_PairsPartitioned ==
    [][ \A p \in OriginPairs \cup {<<i[1], i[3]>> : i \in LockoutInputs} :
          LET other == LockKey(p[1], p[2]) IN
          /\ \A q \in InFlight :
                LoginFound(q, TRUE) /\ <<q.email, q.ip>> # p =>
                    /\ LockKey(q.email, q.ip) # other
                    /\ EntryOf(failedLoginAttempts', other) = EntryOf(failedLoginAttempts, other)
          /\ \A i \in OriginInputs \cup LockoutInputs :
                LoginStart(i[1], i[2], i[3]) /\ <<i[1], i[3]>> # p =>
                    EntryOf(failedLoginAttempts', other) = EntryOf(failedLoginAttempts, other)
      ]_vars

ServerBound(secret) ==
    \E t \in issued : t.sig /\ t.type = SetupType /\ t.secret = secret

(* C20: every non-empty TOTP secret that a step writes to a credential     *)
(* record is the secret of a signed setup token the server issued before;  *)
(* setup tokens are issued by status only, with a 200 answer to a          *)
(* registered session whose snapshot has an empty secret; a registered     *)
(* session with a secret is told "setup: true" without token, any other    *)
(* status request gets 401 without token; and status changes neither the   *)
(* credential records nor the session registry.                            *)
C20_OnlyServerSecretsPersisted ==
    [][ /\ \A u \in DOMAIN users :
              users'[u].totpSecret \notin {"", users[u].totpSecret} =>
                  /\ ServerBound(users'[u].totpSecret)
                  /\ resp'.op = "setup" /\ resp'.status = 200
        /\ \A t \in issued' \ issued :
              t.type = SetupType =>
                  /\ t.sig
                  /\ resp'.op = "status" /\ resp'.status = 200 /\ resp'.token = t
        /\ resp'.op = "status" =>
              /\ users' = users /\ authenticatedUsers' = authenticatedUsers
              /\ \/ /\ resp'.status = 200 /\ resp'.body = "setup: false"
                    /\ from(resp'.req.token) # Absent
                    /\ from(resp'.req.token).data.totpSecret = ""
                    /\ resp'.token.type = SetupType /\ resp'.token \in issued'
                 \/ /\ resp'.status = 200 /\ resp'.body = "setup: true"
                    /\ from(resp'.req.token) # Absent
                    /\ from(resp'.req.token).data.totpSecret # ""
                    /\ resp'.token = NoToken /\ issued' = issued
                 \/ /\ resp'.status = 401 /\ resp'.body = ""
                    /\ resp'.token = NoToken /\ issued' = issued
      ]_vars

(* C20 witness: setup has persisted a secret to the record of identity 1,  *)
(* which starts without one.                                               *)
C20_Witness ==
    /\ resp.op = "setup" /\ resp.status = 200
    /\ users[1].totpSecret # ""
    /\ ServerBound(users[1].totpSecret)

IdentityOf(registry, token) == registry[token].data.id

(* C21: whatever the requests and their interleaving, a step gives the     *)
(* session registry a new entry only as the last step of a login whose     *)
(* email and password are those of the entry's identity and whose lookup   *)
(* read a record with empty TOTP secret, or as the last step of a verify   *)
(* with a signed pending token of that identity; no step changes the       *)
(* identity of an entry; a verify gets past its TOTP check only with a     *)
(* code of the identity's persisted secret for a time step at most one     *)
(* away; and a pending token of an identity is issued only by a login with *)
(* that identity's email and password while its secret is non-empty.       *)
C21_NoSessionWithoutFactors ==
    [][ /\ \A token \in DOMAIN authenticatedUsers' :
              LET id == IdentityOf(authenticatedUsers', token) IN
              IF token \in DOMAIN authenticatedUsers
              THEN IdentityOf(authenticatedUsers, token) = id
              ELSE \/ \E q \in InFlight :
                         /\ afterLogin(q, TRUE)
                         /\ q.user.id = id
                         /\ q.email = users[id].email
                         /\ q.hashedPassword = users[id].password
                         /\ q.user.totpSecret = ""
                   \/ \E q \in InFlight :
                         /\ VerifyBasket(q, TRUE)
                         /\ q.userId = id
                         /\ q.token \in issued /\ q.token.sig
                         /\ q.token.type = "password_valid_needs_second_factor_token"
                         /\ q.token.userId = id
        /\ \A q \in InFlight :
              VerifyFound(q, TRUE) /\ resp' = NoResponse =>
                  /\ q.totpToken.secret = users[q.userId].totpSecret
                  /\ StepsAway(q.totpToken) <= 1
        /\ \A t \in issued' \ issued :
              t.type = "password_valid_needs_second_factor_token" =>
                  /\ t.sig
                  /\ users[t.userId].totpSecret # ""
                  /\ \E q \in InFlight :
                        LoginFound(q, TRUE) /\ Matches(t.userId, q.email, q.password)
      ]_vars

(* C21 witness: a session of identity 2, whose record has a TOTP secret,   *)
(* is in the registry, handed out by a verify.                             *)
C21_Witness ==
    /\ resp.op = "verify" /\ resp.status = 200
    /\ resp.token \in DOMAIN authenticatedUsers
    /\ IdentityOf(authenticatedUsers, resp.token) = 2
    /\ authenticatedUsers[resp.token].data.totpSecret # ""

(* The reasons for which setup turns a request away before its lookup. *)
SetupRefused(b, p, t, c) ==
    \/ b \notin DOMAIN authenticatedUsers
    \/ clock - b.iat >= TokenTtlMs
    \/ authenticatedUsers[b].data.password # Hash(p)
    \/ authenticatedUsers[b].data.totpSecret # ""
    \/ ~t.sig
    \/ clock - t.iat >= TokenTtlMs
    \/ t.type # "totp_setup_secret"
    \/ c.secret # t.secret
    \/ StepsAway(c) > 1

(* C22: a setup request without registered session, with a wrong password, *)
(* on a snapshot that has a secret, with a setup token that is invalid or  *)
(* of the wrong type, with a first code that is not valid for the token's  *)
(* secret, or whose identity is not found, is answered 401 and leaves the  *)
(* credential records and the session registry as they were; and the only  *)
(* step of a setup that changes either is the one after all these checks,  *)
(* which answers 200.                                                      *)
C22_RejectedSetupChangesNothing ==
    [][ /\ \A b \in TokenInputs, p \in Passwords, t \in TokenInputs,
             c \in CodeInputs \cup {NoCode} :
              SetupStart(b, p, t, c) =>
                  IF SetupRefused(b, p, t, c)
                  THEN /\ resp'.op = "setup" /\ resp'.status = 401
                       /\ UNCHANGED <<users, authenticatedUsers, reqs>>
                  ELSE /\ resp' = NoResponse
                       /\ UNCHANGED <<users, authenticatedUsers>>
        /\ \A q \in InFlight :
              SetupFound(q, TRUE) =>
                  /\ UNCHANGED <<users, authenticatedUsers>>
                  /\ q.userId \notin DOMAIN users =>
                        /\ resp'.op = "setup" /\ resp'.status = 401
                        /\ reqs' = Finish(q)
        /\ resp'.op = "setup" /\ resp'.status # 200 =>
              /\ resp'.status = 401
              /\ UNCHANGED <<users, authenticatedUsers>>
        /\ resp'.op \in {"setup", ""} /\ <<users, authenticatedUsers>>' # <<users, authenticatedUsers>> =>
              /\ resp'.status = 200
              /\ \E q \in InFlight : q.pc = "save" /\ SetupSaved(q, TRUE)
      ]_vars

(* C22 witness: a setup of a session whose identity has no record any more *)
(* has been turned away after its lookup, records and registry being what  *)
(* they were at the start.                                                 *)
C22_Witness ==
    /\ resp.op = "setup" /\ resp.status = 401 /\ resp.error = "No such user found!"
    /\ users = SeedUsers
    /\ GoneSession \in DOMAIN authenticatedUsers
    /\ authenticatedUsers[GoneSession].data = GoneUser

====
